---- MODULE Spec2Model ----
(***************************************************************************)
(* Appointment scheduling, parts stock and supplier orders of the Bluez    *)
(* PowerHouse shop management API (routes/schedule.js, routes/parts.js and *)
(* the orders and shop routes over the Schedule, Part, Order and Shop      *)
(* models), and the notification store and countdown display of its client.*)
(* Times are integers (milliseconds of a Date), technician, part and       *)
(* contact ids are positive integers, a request body is a record that      *)
(* carries only the fields the client sent.                                *)
(***************************************************************************)
EXTENDS Integers, Sequences, FiniteSets, TLC

\* ---- bounds of the model ----
MaxAppts == 2
MaxJobs == 1
MaxTime == 2
MaxTech == 2
MaxPart == 2
MaxQty == 2
MaxStock == 2
MaxLines == 2
MaxClients == 2
MaxOrders == 2
MaxEdited == 1
MaxCatalogue == 1
MaxShelf == 2
MaxContacts == 1
MaxElapsed == 1
MaxRequests == 3
MaxOnHand == 4
MaxShops == 3
MaxNotes == 2

\* ---- constants of the program ----
\* 60 * 60 * 1000
MsPerHour == 3600000
\* hours < 24 ? 'urgent' : 'normal'
UrgentHours == 24
\* now.getTime() + (24 * 60 * 60 * 1000)
QueryWindowHours == 24
\* req.body.customTimeLimit || 72
DefaultTimeLimit == 72
\* isInt({ min: 1, max: 168 })
MinTimeLimit == 1
MaxTimeLimit == 168
\* Date.now().toString().slice(-6)
OrderNumberDigits == 6
\* prev.slice(0, 49)
KeptOnAdd == 49
\* 1000 * 60 * 60 * 24, the date part of an ISO string
MsPerDay == 86400000

VARIABLES schedules, stock, last, inflight, orders, now,
          shops, awaiting, notifications, unreadCount, timers

vars == <<schedules, stock, last, inflight, orders, now,
          shops, awaiting, notifications, unreadCount, timers>>

\* ---- domains ----
Times == 0..MaxTime
Technicians == 1..MaxTech
PartIds == 1..MaxPart
Clients == 1..MaxClients
Requests == 1..MaxRequests

\* Schedule.status enum
Statuses == {"scheduled", "in_progress", "completed", "cancelled", "no_show"}

\* the statuses the conflict query selects: status: { $in: [...] }
ActiveStatuses == {"scheduled", "in_progress"}

\* ---- request bodies ----
NoFields == [f \in {} |-> 0]

\* Object.assign(target, source), and the object spread { ...a, ...b }
ObjectAssign(target, source) ==
    [f \in DOMAIN target \cup DOMAIN source |->
        IF f \in DOMAIN source THEN source[f] ELSE target[f]]

Has(body, f) == f \in DOMAIN body

Optional(f, Vals) == {NoFields} \cup {[g \in {f} |-> v] : v \in Vals}

\* requiredParts entries: a part reference (MaxPart + 1 references no stored
\* part) and a quantity
RequiredPartEntries == [part : 1..(MaxPart + 1), quantity : 0..MaxQty]

RequiredPartLists ==
    UNION {[1..n -> RequiredPartEntries] : n \in 0..MaxLines}

\* a body the express-validator chain rejects (missing title, bad date, ...)
Malformed == [malformed |-> TRUE]

\* ---- the stored documents ----
\* new Schedule({ ...req.body, createdBy }): the schema defaults fill what the
\* body leaves out; assignedTechnician 0 stands for an unset reference
NewSchedule(body) ==
    [startTime          |-> body.startTime,
     endTime            |-> body.endTime,
     assignedTechnician |-> IF Has(body, "assignedTechnician")
                            THEN body.assignedTechnician ELSE 0,
     status             |-> IF Has(body, "status") THEN body.status ELSE "scheduled",
     requiredParts      |-> IF Has(body, "requiredParts")
                            THEN body.requiredParts ELSE <<>>]

\* the conflict query with closed interval ends ($lte, $gte for $lt, $gt)
FindConflictsClosed(S, exclude, technician, startTime, endTime) ==
    {i \in DOMAIN S \ exclude :
        /\ S[i].assignedTechnician = technician
        /\ S[i].status \in ActiveStatuses
        /\ S[i].startTime <= endTime
        /\ S[i].endTime >= startTime}

\* the conflict query without its _id: { $ne } clause
FindConflictsSelf(S, exclude, technician, startTime, endTime) ==
    {i \in DOMAIN S :
        /\ S[i].assignedTechnician = technician
        /\ S[i].status \in ActiveStatuses
        /\ S[i].startTime < endTime
        /\ S[i].endTime > startTime}

\* the conflict query without its status: { $in } clause
FindConflictsAnyStatus(S, exclude, technician, startTime, endTime) ==
    {i \in DOMAIN S \ exclude :
        /\ S[i].assignedTechnician = technician
        /\ S[i].startTime < endTime
        /\ S[i].endTime > startTime}

\* Schedule.findOne({ _id: { $ne: exclude }, assignedTechnician, status: { $in },
\*   $or: [{ startTime: { $lt: endTime }, endTime: { $gt: startTime } }] }):
\* the ids of the documents the filter matches
FindConflicts(S, exclude, technician, startTime, endTime) ==
    {i \in DOMAIN S \ exclude :
        /\ S[i].assignedTechnician = technician
        /\ S[i].status \in ActiveStatuses
        /\ S[i].startTime < endTime
        /\ S[i].endTime > startTime}

Response(op, id, code, msg) == [op |-> op, id |-> id, code |-> code, msg |-> msg]

\* ---- POST /api/schedule ----
\* the checks with the conflict query outside if (req.body.assignedTechnician):
\* a body without a technician queries for the unset reference
CreateChecksUnguarded(S, P, body) ==
    IF Has(body, "malformed") THEN "validation"
    ELSE IF FindConflicts(S, {}, NewSchedule(body).assignedTechnician,
                          body.startTime, body.endTime) # {}
         THEN "conflict"
    ELSE IF /\ Has(body, "requiredParts")
            /\ \E k \in DOMAIN body.requiredParts :
                   body.requiredParts[k].part \notin DOMAIN P
         THEN "part_not_found"
    ELSE "ok"

\* the checks of the handler before it builds the document
CreateChecks(S, P, body) ==
    IF Has(body, "malformed") THEN "validation"
    ELSE IF /\ Has(body, "assignedTechnician")
            /\ FindConflicts(S, {}, body.assignedTechnician,
                             body.startTime, body.endTime) # {}
         THEN "conflict"
    ELSE IF /\ Has(body, "requiredParts")
            /\ \E k \in DOMAIN body.requiredParts :
                   body.requiredParts[k].part \notin DOMAIN P
         THEN "part_not_found"
    ELSE "ok"

\* a save that repeats the conflict query in one transaction with the insert
SaveNewChecked(S, body) ==
    IF /\ Has(body, "assignedTechnician")
       /\ FindConflicts(S, {}, body.assignedTechnician,
                        body.startTime, body.endTime) # {}
    THEN S
    ELSE Append(S, NewSchedule(body))

\* schedule.save() of a new document
SaveNew(S, body) == Append(S, NewSchedule(body))

CreateOutcome(S, P, body) ==
    LET check == CreateChecks(S, P, body) IN
    IF check = "ok"
    THEN [schedules |-> SaveNew(S, body), stock |-> P,
          resp |-> Response("create", Len(S) + 1, 201, "created")]
    ELSE [schedules |-> S, stock |-> P,
          resp |-> Response("create", 0, 400, check)]

\* ---- PUT /api/schedule/:id ----
PutConflict(S, id, body) ==
    /\ (Has(body, "startTime") \/ Has(body, "endTime")
            \/ Has(body, "assignedTechnician"))
    /\ S[id].status = "scheduled"
    /\ LET startTime == IF Has(body, "startTime") THEN body.startTime
                        ELSE S[id].startTime
           endTime == IF Has(body, "endTime") THEN body.endTime
                      ELSE S[id].endTime
           technician == IF Has(body, "assignedTechnician")
                         THEN body.assignedTechnician
                         ELSE S[id].assignedTechnician
       IN /\ technician \in Technicians
          /\ FindConflicts(S, {id}, technician, startTime, endTime) # {}

\* the update with Object.assign and save() moved before the conflict check
PutOutcomeSaveFirst(S, P, id, body) ==
    IF Has(body, "malformed")
    THEN [schedules |-> S, stock |-> P,
          resp |-> Response("put", id, 400, "validation")]
    ELSE IF id \notin DOMAIN S
    THEN [schedules |-> S, stock |-> P,
          resp |-> Response("put", id, 404, "not_found")]
    ELSE [schedules |-> [S EXCEPT ![id] = ObjectAssign(S[id], body)], stock |-> P,
          resp |-> IF PutConflict(S, id, body)
                   THEN Response("put", id, 400, "conflict")
                   ELSE Response("put", id, 200, "updated")]

PutOutcome(S, P, id, body) ==
    IF Has(body, "malformed")
    THEN [schedules |-> S, stock |-> P,
          resp |-> Response("put", id, 400, "validation")]
    ELSE IF id \notin DOMAIN S
    THEN [schedules |-> S, stock |-> P,
          resp |-> Response("put", id, 404, "not_found")]
    ELSE IF PutConflict(S, id, body)
    THEN [schedules |-> S, stock |-> P,
          resp |-> Response("put", id, 400, "conflict")]
    ELSE [schedules |-> [S EXCEPT ![id] = ObjectAssign(S[id], body)], stock |-> P,
          resp |-> Response("put", id, 200, "updated")]

\* ---- DELETE /api/schedule/:id ----
DeleteOutcome(S, P, id) ==
    IF id \notin DOMAIN S
    THEN [schedules |-> S, stock |-> P,
          resp |-> Response("delete", id, 404, "not_found")]
    ELSE IF S[id].status = "completed"
    THEN [schedules |-> S, stock |-> P,
          resp |-> Response("delete", id, 400, "completed")]
    ELSE [schedules |-> [S EXCEPT ![id].status = "cancelled"], stock |-> P,
          resp |-> Response("delete", id, 200, "cancelled")]

\* ---- POST /api/schedule/:id/start ----
\* the start handler without its status guard
StartOutcomeAnyStatus(S, P, id) ==
    IF id \notin DOMAIN S
    THEN [schedules |-> S, stock |-> P,
          resp |-> Response("start", id, 404, "not_found")]
    ELSE [schedules |-> [S EXCEPT ![id].status = "in_progress"], stock |-> P,
          resp |-> Response("start", id, 200, "started")]

StartOutcome(S, P, id) ==
    IF id \notin DOMAIN S
    THEN [schedules |-> S, stock |-> P,
          resp |-> Response("start", id, 404, "not_found")]
    ELSE IF S[id].status # "scheduled"
    THEN [schedules |-> S, stock |-> P,
          resp |-> Response("start", id, 400, "not_scheduled")]
    ELSE [schedules |-> [S EXCEPT ![id].status = "in_progress"], stock |-> P,
          resp |-> Response("start", id, 200, "started")]

\* ---- POST /api/schedule/:id/complete ----
Max(a, b) == IF a >= b THEN a ELSE b

\* the loop body without Math.max(0, ...)
UsePartUnfloored(P, requiredPart) ==
    IF requiredPart.part \in DOMAIN P /\ requiredPart.quantity # 0
    THEN [P EXCEPT ![requiredPart.part] =
              P[requiredPart.part] - requiredPart.quantity]
    ELSE P

\* one pass of the loop body: Part.findById, Math.max(0, ...), part.save()
UsePart(P, requiredPart) ==
    IF requiredPart.part \in DOMAIN P /\ requiredPart.quantity # 0
    THEN [P EXCEPT ![requiredPart.part] =
              Max(0, P[requiredPart.part] - requiredPart.quantity)]
    ELSE P

RECURSIVE UseParts(_, _)
UseParts(P, requiredParts) ==
    IF requiredParts = <<>> THEN P
    ELSE UseParts(UsePart(P, Head(requiredParts)), Tail(requiredParts))

\* the complete handler without its status guard
CompleteOutcomeAnyStatus(S, P, id) ==
    IF id \notin DOMAIN S
    THEN [schedules |-> S, stock |-> P,
          resp |-> Response("complete", id, 404, "not_found")]
    ELSE [schedules |-> [S EXCEPT ![id].status = "completed"],
          stock |-> UseParts(P, S[id].requiredParts),
          resp |-> Response("complete", id, 200, "completed")]

CompleteOutcome(S, P, id) ==
    IF id \notin DOMAIN S
    THEN [schedules |-> S, stock |-> P,
          resp |-> Response("complete", id, 404, "not_found")]
    ELSE IF S[id].status # "in_progress"
    THEN [schedules |-> S, stock |-> P,
          resp |-> Response("complete", id, 400, "not_in_progress")]
    ELSE [schedules |-> [S EXCEPT ![id].status = "completed"],
          stock |-> UseParts(P, S[id].requiredParts),
          resp |-> Response("complete", id, 200, "completed")]

\* ---- POST /api/parts: a part enters the store with a validated quantity ----
PartCreateOutcome(P, quantityInStock) == Append(P, quantityInStock)

\* ---- the bodies the clients send ----
TimedBodies ==
    {ObjectAssign([startTime |-> s, endTime |-> e], t) :
        s \in Times, e \in Times, t \in Optional("assignedTechnician", Technicians)}

\* scheduling requests: the interval and the technician vary
SchedCreateBodies == {Malformed} \cup TimedBodies

\* create bodies that also name a status of the Schedule.status enum: no
\* validator of the chain reads the field
StatusCreateBodies ==
    {ObjectAssign(body, [status |-> st]) : body \in TimedBodies, st \in Statuses}

\* updates: a patch of interval and technician, or a patch of the status
SchedPutBodies ==
    {Malformed}
    \cup {ObjectAssign(ObjectAssign(s, e), t) :
            s \in Optional("startTime", Times), e \in Optional("endTime", Times),
            t \in Optional("assignedTechnician", Technicians)}
    \cup {[status |-> st] : st \in Statuses}

\* ---- state after construction: empty collections, no request in flight ----
Idle == NoFields

Init ==
    /\ schedules = <<>>
    /\ stock = <<>>
    /\ last = Response("none", 0, 0, "none")
    /\ inflight = [c \in Clients |-> Idle]
    /\ orders = <<>>
    /\ now = 0
    /\ shops = <<>>
    /\ awaiting = [r \in Requests |-> Idle]
    /\ notifications = <<>>
    /\ unreadCount = 0
    /\ timers = {}

\* ---- the handlers, each run to completion ----
Create(Bodies) ==
    \E body \in Bodies :
        \E out \in {CreateOutcome(schedules, stock, body)} :
        /\ Len(out.schedules) <= MaxAppts
        /\ schedules' = out.schedules
        /\ stock' = out.stock
        /\ last' = out.resp
        /\ UNCHANGED <<inflight, orders, now,
                       shops, awaiting, notifications, unreadCount, timers>>

Put(Bodies) ==
    \E id \in 1..MaxAppts, body \in Bodies :
        \E out \in {PutOutcome(schedules, stock, id, body)} :
        /\ schedules' = out.schedules
        /\ stock' = out.stock
        /\ last' = out.resp
        /\ UNCHANGED <<inflight, orders, now,
                       shops, awaiting, notifications, unreadCount, timers>>

Delete ==
    \E id \in 1..MaxAppts :
        \E out \in {DeleteOutcome(schedules, stock, id)} :
        /\ schedules' = out.schedules
        /\ stock' = out.stock
        /\ last' = out.resp
        /\ UNCHANGED <<inflight, orders, now,
                       shops, awaiting, notifications, unreadCount, timers>>

Start ==
    \E id \in 1..MaxAppts :
        \E out \in {StartOutcome(schedules, stock, id)} :
        /\ schedules' = out.schedules
        /\ stock' = out.stock
        /\ last' = out.resp
        /\ UNCHANGED <<inflight, orders, now,
                       shops, awaiting, notifications, unreadCount, timers>>

Complete ==
    \E id \in 1..MaxAppts :
        \E out \in {CompleteOutcome(schedules, stock, id)} :
        /\ schedules' = out.schedules
        /\ stock' = out.stock
        /\ last' = out.resp
        /\ UNCHANGED <<inflight, orders, now,
                       shops, awaiting, notifications, unreadCount, timers>>

PartCreate ==
    /\ Len(stock) < MaxPart
    /\ \E q \in 0..MaxStock : stock' = PartCreateOutcome(stock, q)
    /\ last' = Response("part_create", Len(stock) + 1, 201, "created")
    /\ UNCHANGED <<schedules, inflight, orders, now,
                   shops, awaiting, notifications, unreadCount, timers>>

SchedCreate == Create(SchedCreateBodies)

SchedPut == Put(SchedPutBodies)

Next ==
    \/ SchedCreate
    \/ SchedPut
    \/ Delete
    \/ Start
    \/ Complete

Spec == Init /\ [][Next]_vars

\* ---- jobs with parts: the required parts and the stock vary ----
PartsCreateBodies ==
    {Malformed} \cup
    {ObjectAssign([startTime |-> 0, endTime |-> 1], rp) :
        rp \in Optional("requiredParts", RequiredPartLists)}

PartsPutBodies ==
    {Malformed}
    \cup {[status |-> st] : st \in Statuses}
    \cup {[requiredParts |-> rp] : rp \in RequiredPartLists}

PartsCreate == Len(schedules) < MaxJobs /\ Create(PartsCreateBodies)

PartsPut == Put(PartsPutBodies)

NextParts ==
    \/ PartCreate
    \/ PartsCreate
    \/ PartsPut
    \/ Delete
    \/ Start
    \/ Complete

SpecParts == Init /\ [][NextParts]_vars

\* ---- concurrent creates: each await is a point where requests interleave ----
InFlight == {c \in Clients : inflight[c] # Idle}

\* validation and the conflict query of one request, up to the await of save()
CreateQuery(c) ==
    /\ inflight[c] = Idle
    /\ \E body \in SchedCreateBodies :
        \E check \in {CreateChecks(schedules, stock, body)} :
            IF check = "ok"
            THEN /\ Len(schedules) + Cardinality(InFlight) < MaxAppts
                 /\ inflight' = [inflight EXCEPT ![c] = body]
                 /\ UNCHANGED <<schedules, stock, last, orders, now,
                                shops, awaiting, notifications, unreadCount, timers>>
            ELSE /\ last' = Response("create", 0, 400, check)
                 /\ UNCHANGED <<schedules, stock, inflight, orders, now,
                                shops, awaiting, notifications, unreadCount, timers>>

\* schedule.save() of a request whose query found no conflict
CreateSave(c) ==
    /\ inflight[c] # Idle
    /\ schedules' = SaveNew(schedules, inflight[c])
    /\ last' = Response("create", Len(schedules) + 1, 201, "created")
    /\ inflight' = [inflight EXCEPT ![c] = Idle]
    /\ UNCHANGED <<stock, orders, now,
                   shops, awaiting, notifications, unreadCount, timers>>

NextRace ==
    \/ \E c \in Clients : CreateQuery(c)
    \/ \E c \in Clients : CreateSave(c)
    \/ Delete
    \/ Start

SpecRace == Init /\ [][NextRace]_vars

\* ======================= supplier orders =======================

\* Order.status enum
OrderStatuses == {"pending", "confirmed", "shipped", "delivered", "cancelled"}

\* status: { $in: ['confirmed', 'shipped'] } of the two shipping queries
ShippingStatuses == {"confirmed", "shipped"}

\* the stored contacts; MaxContacts + 1 references no stored contact
Contacts == 1..MaxContacts

\* ---- values of a JSON body ----
\* a number, and a string holding the decimal digits of a number
JsonNumber(n) == [type |-> "number", n |-> n]

JsonString(n) == [type |-> "string", n |-> n]

\* the number a value converts to: v * 60 * 60 * 1000, Mongoose's Number cast
ToNumber(v) == v.n

\* a value in a condition: 0 is falsy, a string of digits is not
Truthy(v) == v.type = "string" \/ v.n # 0

\* v !== stored, the stored customTimeLimit being a number
StrictNotEqual(v, stored) == v.type # "number" \/ v.n # stored

\* isInt({ min, max }) of express-validator: the value is tested as a string
IsInt(v, min, max) == min <= v.n /\ v.n <= max

\* a Date field is <<t>>, an unset or null one <<>>
NoDate == <<>>

DateOf(t) == <<t>>

\* the validator chains of POST and PUT /api/orders: what errors.array() holds
OrderBodyErrors(body) ==
    IF Has(body, "malformed") THEN "validation"
    ELSE IF Has(body, "status") /\ body.status \notin OrderStatuses THEN "validation"
    ELSE IF /\ Has(body, "customTimeLimit")
            /\ ~IsInt(body.customTimeLimit, MinTimeLimit, MaxTimeLimit)
         THEN "time_limit"
    ELSE "none"

\* ---- the Order document ----
\* new Order({ supplier, parts, totalAmount, customTimeLimit, ... }) at clock t:
\* status and orderDate take the schema defaults 'pending' and Date.now
NewOrder(body, t) ==
    [orderNumber      |-> <<>>,
     orderDate        |-> t,
     customTimeLimit  |-> IF Has(body, "customTimeLimit") /\ Truthy(body.customTimeLimit)
                          THEN ToNumber(body.customTimeLimit)
                          ELSE DefaultTimeLimit,
     countdownEndTime |-> NoDate,
     status           |-> "pending",
     parts            |-> body.parts]

\* the hook with the deadline counted from the document's orderDate
PreSaveFromOrderDate(order, isNew, t) ==
    IF isNew
    THEN [order EXCEPT
            !.orderNumber = <<t % (10 ^ OrderNumberDigits)>>,
            !.countdownEndTime =
                IF order.customTimeLimit # 0
                THEN DateOf(order.orderDate + order.customTimeLimit * MsPerHour)
                ELSE @]
    ELSE order

\* orderSchema.pre('save') run at clock t
PreSave(order, isNew, t) ==
    IF isNew
    THEN [order EXCEPT
            !.orderNumber = <<t % (10 ^ OrderNumberDigits)>>,
            !.countdownEndTime =
                IF order.customTimeLimit # 0
                THEN DateOf(t + order.customTimeLimit * MsPerHour)
                ELSE @]
    ELSE order

\* the virtual with the hours left rounded up instead of down
CountdownStatusCeil(order, t) ==
    IF order.countdownEndTime = NoDate THEN "null"
    ELSE LET timeLeft == order.countdownEndTime[1] - t IN
         IF timeLeft <= 0 THEN "overdue"
         ELSE IF (timeLeft + MsPerHour - 1) \div MsPerHour < UrgentHours
              THEN "urgent" ELSE "normal"

\* orderSchema.virtual('countdownStatus') read at clock t: the status field of
\* the object it returns, "null" when it returns null
CountdownStatus(order, t) ==
    IF order.countdownEndTime = NoDate THEN "null"
    ELSE LET timeLeft == order.countdownEndTime[1] - t IN
         IF timeLeft <= 0 THEN "overdue"
         ELSE IF timeLeft \div MsPerHour < UrgentHours
              THEN "urgent" ELSE "normal"

\* ---- POST /api/orders ----
\* the handler entered at clock t, its save() hook run elapsed ms later
OrderCreateOutcome(O, P, t, elapsed, body) ==
    IF OrderBodyErrors(body) # "none"
    THEN [orders |-> O, stock |-> P,
          resp |-> Response("order_create", 0, 400, OrderBodyErrors(body))]
    ELSE IF body.supplier \notin Contacts
    THEN [orders |-> O, stock |-> P,
          resp |-> Response("order_create", 0, 400, "supplier_not_found")]
    ELSE IF \E k \in DOMAIN body.parts : body.parts[k].part \notin DOMAIN P
    THEN [orders |-> O, stock |-> P,
          resp |-> Response("order_create", 0, 400, "part_not_found")]
    ELSE LET order == PreSave(NewOrder(body, t), TRUE, t + elapsed) IN
         IF \E i \in DOMAIN O : O[i].orderNumber = order.orderNumber
         THEN [orders |-> O, stock |-> P,
               resp |-> Response("order_create", 0, 500, "server_error")]
         ELSE [orders |-> Append(O, order), stock |-> P,
               resp |-> Response("order_create", Len(O) + 1, 201, "created")]

\* ---- PUT /api/orders/:id ----
\* the body as the document's setters store it
CastBody(body) ==
    [f \in DOMAIN body |->
        IF f = "customTimeLimit" THEN ToNumber(body[f]) ELSE body[f]]

\* the countdown update of the handler at clock t
Rebase(order, body, t) ==
    IF /\ Has(body, "customTimeLimit")
       /\ Truthy(body.customTimeLimit)
       /\ StrictNotEqual(body.customTimeLimit, order.customTimeLimit)
    THEN [order EXCEPT
            !.customTimeLimit = ToNumber(body.customTimeLimit),
            !.countdownEndTime =
                DateOf(t + ToNumber(body.customTimeLimit) * MsPerHour)]
    ELSE order

\* the update with the time limit's validation error read after the save
OrderPutOutcomeLateValidation(O, P, t, id, body) ==
    IF OrderBodyErrors(body) = "validation"
    THEN [orders |-> O, stock |-> P,
          resp |-> Response("order_put", id, 400, "validation")]
    ELSE IF id \notin DOMAIN O
    THEN [orders |-> O, stock |-> P,
          resp |-> IF OrderBodyErrors(body) = "none"
                   THEN Response("order_put", id, 404, "not_found")
                   ELSE Response("order_put", id, 400, OrderBodyErrors(body))]
    ELSE LET order == ObjectAssign(Rebase(O[id], body, t), CastBody(body)) IN
         [orders |-> [O EXCEPT ![id] = PreSave(order, FALSE, t)], stock |-> P,
          resp |-> IF OrderBodyErrors(body) = "none"
                   THEN Response("order_put", id, 200, "updated")
                   ELSE Response("order_put", id, 400, OrderBodyErrors(body))]

OrderPutOutcome(O, P, t, id, body) ==
    IF OrderBodyErrors(body) # "none"
    THEN [orders |-> O, stock |-> P,
          resp |-> Response("order_put", id, 400, OrderBodyErrors(body))]
    ELSE IF id \notin DOMAIN O
    THEN [orders |-> O, stock |-> P,
          resp |-> Response("order_put", id, 404, "not_found")]
    ELSE LET order == ObjectAssign(Rebase(O[id], body, t), CastBody(body)) IN
         [orders |-> [O EXCEPT ![id] = PreSave(order, FALSE, t)], stock |-> P,
          resp |-> Response("order_put", id, 200, "updated")]

\* ---- DELETE /api/orders/:id ----
OrderCancelOutcome(O, P, id) ==
    IF id \notin DOMAIN O
    THEN [orders |-> O, stock |-> P,
          resp |-> Response("order_cancel", id, 404, "not_found")]
    ELSE IF O[id].status = "delivered"
    THEN [orders |-> O, stock |-> P,
          resp |-> Response("order_cancel", id, 400, "delivered")]
    ELSE [orders |-> [O EXCEPT ![id].status = "cancelled"], stock |-> P,
          resp |-> Response("order_cancel", id, 200, "cancelled")]

\* ---- POST /api/orders/:id/receive ----
\* part.quantityInStock += orderPart.quantity; part.save()
ReceivePart(P, orderPart) ==
    [P EXCEPT ![orderPart.part] = P[orderPart.part] + orderPart.quantity]

RECURSIVE ReceiveParts(_, _)
ReceiveParts(P, parts) ==
    IF parts = <<>> THEN P
    ELSE ReceiveParts(ReceivePart(P, Head(parts)), Tail(parts))

\* the receive handler without its test of order.status === 'delivered'
OrderReceiveOutcomeAgain(O, P, id) ==
    IF id \notin DOMAIN O
    THEN [orders |-> O, stock |-> P,
          resp |-> Response("order_receive", id, 404, "not_found")]
    ELSE [orders |-> [O EXCEPT ![id].status = "delivered"],
          stock |-> ReceiveParts(P, O[id].parts),
          resp |-> Response("order_receive", id,
                            IF O[id].status = "delivered" THEN 400 ELSE 200,
                            IF O[id].status = "delivered" THEN "delivered"
                            ELSE "received")]

OrderReceiveOutcome(O, P, id) ==
    IF id \notin DOMAIN O
    THEN [orders |-> O, stock |-> P,
          resp |-> Response("order_receive", id, 404, "not_found")]
    ELSE IF O[id].status = "delivered"
    THEN [orders |-> O, stock |-> P,
          resp |-> Response("order_receive", id, 400, "delivered")]
    ELSE [orders |-> [O EXCEPT ![id].status = "delivered"],
          stock |-> ReceiveParts(P, O[id].parts),
          resp |-> Response("order_receive", id, 200, "received")]

\* ---- GET /api/orders/shipping/overdue and /urgent ----
\* .sort({ countdownEndTime: 1 }): the orders ids in an order of ascending
\* countdownEndTime; documents with equal keys come in any order
SortByCountdownEndTime(O, ids) ==
    {s \in [1..Cardinality(ids) -> ids] :
        /\ \A k, l \in DOMAIN s : k # l => s[k] # s[l]
        /\ \A k \in DOMAIN s : k + 1 \in DOMAIN s
              => O[s[k]].countdownEndTime[1] <= O[s[k + 1]].countdownEndTime[1]}

\* the overdue query without its status clause
OverdueResultsAnyStatus(O, t) ==
    SortByCountdownEndTime(O,
        {i \in DOMAIN O :
            /\ O[i].countdownEndTime # NoDate
            /\ O[i].countdownEndTime[1] < t})

\* Order.find({ status: { $in }, countdownEndTime: { $lt: now } }) at clock t:
\* the lists the query can answer
OverdueResults(O, t) ==
    SortByCountdownEndTime(O,
        {i \in DOMAIN O :
            /\ O[i].status \in ShippingStatuses
            /\ O[i].countdownEndTime # NoDate
            /\ O[i].countdownEndTime[1] < t})

\* the urgent query with closed bounds ($gte, $lte for $gt, $lt)
UrgentResultsClosed(O, t) ==
    SortByCountdownEndTime(O,
        {i \in DOMAIN O :
            /\ O[i].status \in ShippingStatuses
            /\ O[i].countdownEndTime # NoDate
            /\ O[i].countdownEndTime[1] >= t
            /\ O[i].countdownEndTime[1] <= t + QueryWindowHours * MsPerHour})

\* Order.find({ status: { $in }, countdownEndTime: { $gt: now, $lt: twentyFourHours } })
UrgentResults(O, t) ==
    SortByCountdownEndTime(O,
        {i \in DOMAIN O :
            /\ O[i].status \in ShippingStatuses
            /\ O[i].countdownEndTime # NoDate
            /\ O[i].countdownEndTime[1] > t
            /\ O[i].countdownEndTime[1] < t + QueryWindowHours * MsPerHour})

\* res.json(orders): the response of a shipping query
Listing(op, list) ==
    [op |-> op, id |-> 0, code |-> 200, msg |-> "ok", orders |-> list]

\* ---- the clock ----
\* the clock readings, in ms, at the given hours
Instants(Hours) == {h * MsPerHour : h \in Hours}

\* the hours at which the time limits of the model start, turn urgent and end
AgingHours ==
    {0, 1, UrgentHours, 2 * UrgentHours,
     DefaultTimeLimit - 1, DefaultTimeLimit, DefaultTimeLimit + 1}

EditedHours == {0, 1, UrgentHours, 2 * UrgentHours}

ShippingHours == {0, 1, UrgentHours, UrgentHours + 1}

\* ---- the bodies the order clients send ----
\* the hours a body can name: the ends of the valid range, one beyond each,
\* the urgency threshold and the default
BodyHours ==
    {MinTimeLimit - 1, MinTimeLimit, UrgentHours, DefaultTimeLimit,
     MaxTimeLimit, MaxTimeLimit + 1}

TimeLimitValues == {JsonNumber(h) : h \in BodyHours} \cup {JsonString(h) : h \in BodyHours}

\* one line of one unit of a part; part MaxCatalogue + 1 is not in the store
OrderPartLists == {<<[part |-> p, quantity |-> 1]>> : p \in 1..(MaxCatalogue + 1)}

\* every create body: supplier, parts and time limit vary
OrderCreateBodies ==
    {Malformed} \cup
    {ObjectAssign([supplier |-> s, parts |-> ps], l) :
        s \in 1..(MaxContacts + 1), ps \in OrderPartLists,
        l \in Optional("customTimeLimit", TimeLimitValues)}

DateValues == {NoDate, DateOf(0), DateOf(UrgentHours * MsPerHour)}

\* every update body: time limit, deadline and status vary
OrderPutBodies ==
    {Malformed} \cup
    {ObjectAssign(ObjectAssign(l, d), st) :
        l \in Optional("customTimeLimit", TimeLimitValues),
        d \in Optional("countdownEndTime", DateValues),
        st \in Optional("status", OrderStatuses)}

\* update bodies that name an orderDate, alone or with a status; the value is
\* the instant the Date setter of the schema casts the field to
DatedPutBodies ==
    {ObjectAssign([orderDate |-> t], st) :
        t \in Instants(EditedHours), st \in Optional("status", OrderStatuses)}

\* the bodies the requests of the model carry: a stored supplier and part with
\* a time limit, one body for each way a create is refused
SentCreateBodies ==
    {Malformed,
     [supplier |-> MaxContacts + 1, parts |-> <<[part |-> 1, quantity |-> 1]>>],
     [supplier |-> 1, parts |-> <<[part |-> MaxCatalogue + 1, quantity |-> 1]>>]}
    \cup {ObjectAssign([supplier |-> 1, parts |-> <<[part |-> 1, quantity |-> 1]>>], l) :
            l \in Optional("customTimeLimit",
                     {JsonNumber(MinTimeLimit - 1), JsonNumber(MinTimeLimit),
                      JsonNumber(UrgentHours)})}

\* updates: a patch of the time limit, of the deadline or of both, besides the
\* status updates
SentPutBodies ==
    {Malformed,
     [countdownEndTime |-> NoDate],
     [countdownEndTime |-> DateOf(0)],
     [customTimeLimit |-> JsonNumber(MinTimeLimit), countdownEndTime |-> DateOf(0)]}
    \cup {[customTimeLimit |-> l] :
            l \in {JsonNumber(MinTimeLimit), JsonNumber(UrgentHours),
                   JsonString(UrgentHours), JsonNumber(MaxTimeLimit + 1)}}

\* status updates only
SentStatusBodies == {Malformed} \cup {[status |-> st] : st \in OrderStatuses}

\* ---- the order handlers, each run to completion ----
\* POST /api/parts of a part with nothing in stock
CataloguePart ==
    /\ Len(stock) < MaxCatalogue
    /\ stock' = PartCreateOutcome(stock, 0)
    /\ last' = Response("part_create", Len(stock) + 1, 201, "created")
    /\ UNCHANGED <<schedules, inflight, orders, now,
                   shops, awaiting, notifications, unreadCount, timers>>

\* the clock moves by elapsed ms between new Order() and the save() hook; it is
\* followed up to MaxElapsed ms past an hour
OrderCreate(Bodies, max, Elapsed) ==
    \E body \in Bodies, elapsed \in Elapsed :
        \E out \in {OrderCreateOutcome(orders, stock, now, elapsed, body)} :
        /\ Len(out.orders) <= max
        /\ (now + elapsed) % MsPerHour <= MaxElapsed
        /\ orders' = out.orders
        /\ stock' = out.stock
        /\ last' = out.resp
        /\ now' = now + elapsed
        /\ UNCHANGED <<schedules, inflight,
                       shops, awaiting, notifications, unreadCount, timers>>

OrderPut(Bodies) ==
    \E id \in 1..MaxOrders, body \in Bodies :
        \E out \in {OrderPutOutcome(orders, stock, now, id, body)} :
        /\ orders' = out.orders
        /\ stock' = out.stock
        /\ last' = out.resp
        /\ UNCHANGED <<schedules, inflight, now,
                       shops, awaiting, notifications, unreadCount, timers>>

OrderCancel ==
    \E id \in 1..MaxOrders :
        \E out \in {OrderCancelOutcome(orders, stock, id)} :
        /\ orders' = out.orders
        /\ stock' = out.stock
        /\ last' = out.resp
        /\ UNCHANGED <<schedules, inflight, now,
                       shops, awaiting, notifications, unreadCount, timers>>

OrderReceive ==
    \E id \in 1..MaxOrders :
        \E out \in {OrderReceiveOutcome(orders, stock, id)} :
        /\ \A p \in DOMAIN out.stock : out.stock[p] <= MaxShelf
        /\ orders' = out.orders
        /\ stock' = out.stock
        /\ last' = out.resp
        /\ UNCHANGED <<schedules, inflight, now,
                       shops, awaiting, notifications, unreadCount, timers>>

GetOverdue ==
    /\ \E list \in OverdueResults(orders, now) : last' = Listing("overdue", list)
    /\ UNCHANGED <<schedules, stock, inflight, orders, now,
                   shops, awaiting, notifications, unreadCount, timers>>

GetUrgent ==
    /\ \E list \in UrgentResults(orders, now) : last' = Listing("urgent", list)
    /\ UNCHANGED <<schedules, stock, inflight, orders, now,
                   shops, awaiting, notifications, unreadCount, timers>>

\* time passes between requests
Tick(Hours) ==
    /\ \E t \in Instants(Hours) : t > now /\ now' = t
    /\ UNCHANGED <<schedules, stock, last, inflight, orders,
                   shops, awaiting, notifications, unreadCount, timers>>

\* ---- one order through its life: the time limit and the deadline vary ----
EditedCreate == OrderCreate(SentCreateBodies, MaxEdited, 0..MaxElapsed)

EditedPut == OrderPut(SentPutBodies \cup SentStatusBodies)

EditedTick == Tick(EditedHours)

NextOrders ==
    \/ CataloguePart
    \/ EditedCreate
    \/ EditedPut
    \/ OrderCancel
    \/ OrderReceive
    \/ EditedTick

SpecOrders == Init /\ [][NextOrders]_vars

\* ---- an order that is created and never edited ----
AgingCreate == OrderCreate(SentCreateBodies, MaxOrders, 0..MaxElapsed)

AgingTick == Tick(AgingHours)

NextAging ==
    \/ CataloguePart
    \/ AgingCreate
    \/ OrderCancel
    \/ OrderReceive
    \/ AgingTick

SpecAging == Init /\ [][NextAging]_vars

\* ---- the shipping lists: several orders, their statuses vary ----
ShippingCreate == OrderCreate(SentCreateBodies, MaxOrders, {0})

ShippingPut == OrderPut(SentStatusBodies)

ShippingTick == Tick(ShippingHours)

NextShipping ==
    \/ CataloguePart
    \/ ShippingCreate
    \/ ShippingPut
    \/ OrderCancel
    \/ OrderReceive
    \/ GetOverdue
    \/ GetUrgent
    \/ ShippingTick

SpecShipping == Init /\ [][NextShipping]_vars

\* ---- deliveries: one order of one or two lines is received into the store ----
\* the lines of an order: one part, or two distinct parts, 1..MaxQty units each
DeliveryPartLists ==
    {<<[part |-> 1, quantity |-> q]>> : q \in 1..MaxQty}
    \cup {<<[part |-> 1, quantity |-> q1], [part |-> 2, quantity |-> q2]>> :
            q1 \in 1..MaxQty, q2 \in 1..MaxQty}

DeliveryCreateBodies ==
    {Malformed} \cup {[supplier |-> 1, parts |-> ps] : ps \in DeliveryPartLists}

\* POST /api/parts of a part with nothing in stock
DeliveryShelve ==
    /\ Len(stock) < MaxPart
    /\ stock' = PartCreateOutcome(stock, 0)
    /\ last' = Response("part_create", Len(stock) + 1, 201, "created")
    /\ UNCHANGED <<schedules, inflight, orders, now,
                   shops, awaiting, notifications, unreadCount, timers>>

DeliveryCreate == OrderCreate(DeliveryCreateBodies, MaxEdited, {0})

DeliveryPut == OrderPut(SentStatusBodies)

\* the receive handler, followed while no part holds more than MaxOnHand
DeliveryReceive ==
    \E id \in 1..MaxOrders :
        \E out \in {OrderReceiveOutcome(orders, stock, id)} :
        /\ \A p \in DOMAIN out.stock : out.stock[p] <= MaxOnHand
        /\ orders' = out.orders
        /\ stock' = out.stock
        /\ last' = out.resp
        /\ UNCHANGED <<schedules, inflight, now,
                       shops, awaiting, notifications, unreadCount, timers>>

NextDeliveries ==
    \/ DeliveryShelve
    \/ DeliveryCreate
    \/ DeliveryPut
    \/ OrderCancel
    \/ DeliveryReceive

SpecDeliveries == Init /\ [][NextDeliveries]_vars

\* ======================= the parts inventory =======================

\* isInt({ min }) of express-validator
IsIntFrom(v, min) == min <= v.n

\* the decimal digits of a non-negative integer
RECURSIVE Digits(_)
Digits(n) == IF n < 10 THEN 1 ELSE 1 + Digits(n \div 10)

\* part.quantityInStock += v, read back through the Number setter of the
\* schema: a number is added, a string of digits is appended to the digits of
\* the stored quantity
PlusEquals(quantityInStock, v) ==
    IF v.type = "string"
    THEN quantityInStock * (10 ^ Digits(v.n)) + v.n
    ELSE quantityInStock + v.n

\* part.save(): quantityInStock { type: Number, min: 0 } refuses a negative value
PartSaves(quantityInStock) == quantityInStock >= 0

\* ---- PUT /api/parts/:id ----
\* the update without the validator of quantityInStock and without the
\* schema's min
PartPutOutcomeUnchecked(P, id, body) ==
    IF id \notin DOMAIN P
    THEN [stock |-> P, resp |-> Response("part_put", id, 404, "not_found")]
    ELSE IF ~Has(body, "quantityInStock")
    THEN [stock |-> P, resp |-> Response("part_put", id, 200, "updated")]
    ELSE [stock |-> [P EXCEPT ![id] = ToNumber(body.quantityInStock)],
          resp |-> Response("part_put", id, 200, "updated")]

PartPutOutcome(P, id, body) ==
    IF Has(body, "quantityInStock") /\ ~IsIntFrom(body.quantityInStock, 0)
    THEN [stock |-> P, resp |-> Response("part_put", id, 400, "validation")]
    ELSE IF id \notin DOMAIN P
    THEN [stock |-> P, resp |-> Response("part_put", id, 404, "not_found")]
    ELSE IF ~Has(body, "quantityInStock")
    THEN [stock |-> P, resp |-> Response("part_put", id, 200, "updated")]
    ELSE IF ~PartSaves(ToNumber(body.quantityInStock))
    THEN [stock |-> P, resp |-> Response("part_put", id, 500, "server_error")]
    ELSE [stock |-> [P EXCEPT ![id] = ToNumber(body.quantityInStock)],
          resp |-> Response("part_put", id, 200, "updated")]

\* ---- POST /api/parts/:id/restock ----
RestockOutcome(P, id, body) ==
    IF ~Has(body, "quantity") \/ ~IsIntFrom(body.quantity, 1)
    THEN [stock |-> P, resp |-> Response("restock", id, 400, "validation")]
    ELSE IF id \notin DOMAIN P
    THEN [stock |-> P, resp |-> Response("restock", id, 404, "not_found")]
    ELSE IF ~PartSaves(PlusEquals(P[id], body.quantity))
    THEN [stock |-> P, resp |-> Response("restock", id, 500, "server_error")]
    ELSE [stock |-> [P EXCEPT ![id] = PlusEquals(P[id], body.quantity)],
          resp |-> Response("restock", id, 200, "restocked")]

\* ---- the bodies the inventory clients send ----
\* a quantity below the validators' minimum, the minima, and a quantity sent
\* as a string
PartUpdateBodies ==
    {NoFields} \cup
    {[quantityInStock |-> v] :
        v \in {JsonNumber(-1), JsonNumber(0), JsonNumber(1), JsonString(MaxStock)}}

RestockBodies ==
    {NoFields} \cup
    {[quantity |-> v] :
        v \in {JsonNumber(-1), JsonNumber(0), JsonNumber(1), JsonString(1)}}

\* jobs that need no part, a part in stock, more than the store can hold, or
\* two parts
InventoryJobBodies ==
    {ObjectAssign([startTime |-> 0, endTime |-> 1], rp) :
        rp \in Optional("requiredParts",
                  {<<[part |-> 1, quantity |-> 1]>>,
                   <<[part |-> 1, quantity |-> MaxOnHand + 1]>>,
                   <<[part |-> 1, quantity |-> 1], [part |-> 2, quantity |-> MaxQty]>>})}

InventoryOrderBodies ==
    {[supplier |-> 1, parts |-> ps] :
        ps \in {<<[part |-> 1, quantity |-> 1]>>,
                <<[part |-> 1, quantity |-> MaxQty], [part |-> 2, quantity |-> 1]>>}}

\* ---- the inventory handlers, each run to completion and followed while no
\* part holds more than MaxOnHand ----
InventoryPut ==
    \E id \in 1..MaxPart, body \in PartUpdateBodies :
        \E out \in {PartPutOutcome(stock, id, body)} :
        /\ \A p \in DOMAIN out.stock : out.stock[p] <= MaxOnHand
        /\ stock' = out.stock
        /\ last' = out.resp
        /\ UNCHANGED <<schedules, inflight, orders, now,
                       shops, awaiting, notifications, unreadCount, timers>>

InventoryRestock ==
    \E id \in 1..MaxPart, body \in RestockBodies :
        \E out \in {RestockOutcome(stock, id, body)} :
        /\ \A p \in DOMAIN out.stock : out.stock[p] <= MaxOnHand
        /\ stock' = out.stock
        /\ last' = out.resp
        /\ UNCHANGED <<schedules, inflight, orders, now,
                       shops, awaiting, notifications, unreadCount, timers>>

InventoryJob == Len(schedules) < MaxJobs /\ Create(InventoryJobBodies)

InventoryOrder == OrderCreate(InventoryOrderBodies, MaxEdited, {0})

NextInventory ==
    \/ PartCreate
    \/ InventoryPut
    \/ InventoryRestock
    \/ InventoryJob
    \/ Start
    \/ Complete
    \/ InventoryOrder
    \/ DeliveryReceive

SpecInventory == Init /\ [][NextInventory]_vars

\* ---- requests on one part that interleave at their awaits ----
\* a request is Idle until it is sent, holds the locals of its handler while the
\* handler waits for the database, and holds its answer afterwards
Answer(handler, code, part, delta) ==
    [op |-> "answered", handler |-> handler, code |-> code,
     part |-> part, delta |-> delta]

Pending == {r \in Requests : awaiting[r] # Idle /\ awaiting[r].op # "answered"}

\* the part enters the store with MaxStock units
RacingShelve ==
    /\ Len(stock) < MaxCatalogue
    /\ stock' = PartCreateOutcome(stock, MaxStock)
    /\ last' = Response("part_create", Len(stock) + 1, 201, "created")
    /\ UNCHANGED <<schedules, inflight, orders, now,
                   shops, awaiting, notifications, unreadCount, timers>>

\* an order and a job of one line each, one unit of part 1
RacingOrderBodies == {[supplier |-> 1, parts |-> <<[part |-> 1, quantity |-> 1]>>]}

RacingJobBodies ==
    {[startTime |-> 0, endTime |-> 1,
      requiredParts |-> <<[part |-> 1, quantity |-> 1]>>]}

RacingOrder == OrderCreate(RacingOrderBodies, MaxEdited, {0})

RacingJob == Len(schedules) < MaxJobs /\ Create(RacingJobBodies)

\* POST /api/parts/:id/restock up to await Part.findById
RestockFind(r) ==
    /\ awaiting[r] = Idle
    /\ \E id \in 1..MaxCatalogue, body \in {[quantity |-> JsonNumber(1)]} :
        \E out \in {RestockOutcome(stock, id, body)} :
            /\ last' = IF out.resp.code = 200 THEN last ELSE out.resp
            /\ awaiting' = [awaiting EXCEPT ![r] =
                    IF out.resp.code = 200
                    THEN [op |-> "restock", part |-> id,
                          quantityInStock |-> stock[id], quantity |-> body.quantity]
                    ELSE Answer("restock", out.resp.code, id, 0)]
    /\ UNCHANGED <<schedules, stock, inflight, orders, now,
                   shops, notifications, unreadCount, timers>>

\* part.quantityInStock += req.body.quantity on the document read; part.save()
RestockSave(r) ==
    /\ awaiting[r] # Idle /\ awaiting[r].op = "restock"
    /\ stock' = [stock EXCEPT ![awaiting[r].part] =
                     PlusEquals(awaiting[r].quantityInStock, awaiting[r].quantity)]
    /\ last' = Response("restock", awaiting[r].part, 200, "restocked")
    /\ awaiting' = [awaiting EXCEPT ![r] =
            Answer("restock", 200, awaiting[r].part, ToNumber(awaiting[r].quantity))]
    /\ UNCHANGED <<schedules, inflight, orders, now,
                   shops, notifications, unreadCount, timers>>

\* POST /api/orders/:id/receive up to await Order.findById().populate('parts.part')
\* and the test of order.status
ReceiveFind(r) ==
    /\ awaiting[r] = Idle
    /\ \E id \in 1..MaxEdited :
        \E out \in {OrderReceiveOutcome(orders, stock, id)} :
            /\ last' = IF out.resp.code = 200 THEN last ELSE out.resp
            /\ awaiting' = [awaiting EXCEPT ![r] =
                    IF out.resp.code = 200
                    THEN [op |-> "receive", id |-> id,
                          part |-> orders[id].parts[1].part,
                          quantityInStock |-> stock[orders[id].parts[1].part],
                          quantity |-> orders[id].parts[1].quantity]
                    ELSE Answer("receive", out.resp.code, 0, 0)]
    /\ UNCHANGED <<schedules, stock, inflight, orders, now,
                   shops, notifications, unreadCount, timers>>

\* part.quantityInStock += orderPart.quantity on the populated document;
\* part.save()
ReceiveSavePart(r) ==
    /\ awaiting[r] # Idle /\ awaiting[r].op = "receive"
    /\ stock' = [stock EXCEPT ![awaiting[r].part] =
                     awaiting[r].quantityInStock + awaiting[r].quantity]
    /\ awaiting' = [awaiting EXCEPT ![r].op = "receive_order"]
    /\ UNCHANGED <<schedules, last, inflight, orders, now,
                   shops, notifications, unreadCount, timers>>

\* order.status = 'delivered'; order.save()
ReceiveSaveOrder(r) ==
    /\ awaiting[r] # Idle /\ awaiting[r].op = "receive_order"
    /\ orders' = [orders EXCEPT ![awaiting[r].id].status = "delivered"]
    /\ last' = Response("order_receive", awaiting[r].id, 200, "received")
    /\ awaiting' = [awaiting EXCEPT ![r] =
            Answer("receive", 200, awaiting[r].part, awaiting[r].quantity)]
    /\ UNCHANGED <<schedules, stock, inflight, now,
                   shops, notifications, unreadCount, timers>>

\* POST /api/schedule/:id/complete up to await Schedule.findById and the test of
\* schedule.status
CompleteFind(r) ==
    /\ awaiting[r] = Idle
    /\ \E id \in 1..MaxJobs :
        \E out \in {CompleteOutcome(schedules, stock, id)} :
            /\ last' = IF out.resp.code = 200 THEN last ELSE out.resp
            /\ awaiting' = [awaiting EXCEPT ![r] =
                    IF out.resp.code = 200
                    THEN [op |-> "complete", id |-> id,
                          part |-> schedules[id].requiredParts[1].part,
                          quantity |-> schedules[id].requiredParts[1].quantity]
                    ELSE Answer("complete", out.resp.code, 0, 0)]
    /\ UNCHANGED <<schedules, stock, inflight, orders, now,
                   shops, notifications, unreadCount, timers>>

\* await Part.findById(requiredPart.part)
CompleteFindPart(r) ==
    /\ awaiting[r] # Idle /\ awaiting[r].op = "complete"
    /\ awaiting' = [awaiting EXCEPT ![r] =
            [op |-> "complete_part", id |-> awaiting[r].id,
             part |-> awaiting[r].part, quantity |-> awaiting[r].quantity,
             quantityInStock |-> stock[awaiting[r].part]]]
    /\ UNCHANGED <<schedules, stock, last, inflight, orders, now,
                   shops, notifications, unreadCount, timers>>

\* part.quantityInStock = Math.max(0, ...) on the document read; part.save()
CompleteSavePart(r) ==
    /\ awaiting[r] # Idle /\ awaiting[r].op = "complete_part"
    /\ stock' = [stock EXCEPT ![awaiting[r].part] =
                     Max(0, awaiting[r].quantityInStock - awaiting[r].quantity)]
    /\ awaiting' = [awaiting EXCEPT ![r].op = "complete_save"]
    /\ UNCHANGED <<schedules, last, inflight, orders, now,
                   shops, notifications, unreadCount, timers>>

\* schedule.status = 'completed'; schedule.save()
CompleteSave(r) ==
    /\ awaiting[r] # Idle /\ awaiting[r].op = "complete_save"
    /\ schedules' = [schedules EXCEPT ![awaiting[r].id].status = "completed"]
    /\ last' = Response("complete", awaiting[r].id, 200, "completed")
    /\ awaiting' = [awaiting EXCEPT ![r] =
            Answer("complete", 200, awaiting[r].part, 0 - awaiting[r].quantity)]
    /\ UNCHANGED <<stock, inflight, orders, now,
                   shops, notifications, unreadCount, timers>>

NextInterleaved ==
    \/ RacingShelve
    \/ RacingOrder
    \/ RacingJob
    \/ Start
    \/ \E r \in Requests : RestockFind(r)
    \/ \E r \in Requests : RestockSave(r)
    \/ \E r \in Requests : ReceiveFind(r)
    \/ \E r \in Requests : ReceiveSavePart(r)
    \/ \E r \in Requests : ReceiveSaveOrder(r)
    \/ \E r \in Requests : CompleteFind(r)
    \/ \E r \in Requests : CompleteFindPart(r)
    \/ \E r \in Requests : CompleteSavePart(r)
    \/ \E r \in Requests : CompleteSave(r)

SpecInterleaved == Init /\ [][NextInterleaved]_vars

\* ======================= the shop document =======================

\* new Shop(): the schema defaults
NewShop == [name |-> "Bluez PowerHouse"]

\* Shop.findOne(): the first stored document, 0 for null
FindOne(shopDocs) == IF shopDocs = <<>> THEN 0 ELSE 1

\* body('name').optional().notEmpty()
ShopBodyValid(body) == Has(body, "name") => body.name # ""

ShopPutBodies == {NoFields, [name |-> ""], [name |-> "Garage"], [name |-> "Depot"]}

\* GET /api/shop up to await this.findOne() of getShopInfo: a document found
\* is the answer, otherwise the handler goes on to create one
ShopGetFind(r) ==
    /\ awaiting[r] = Idle
    /\ IF FindOne(shops) # 0
       THEN /\ last' = Response("shop_get", FindOne(shops), 200, "ok")
            /\ UNCHANGED awaiting
       ELSE /\ awaiting' = [awaiting EXCEPT ![r] = [op |-> "shop_get"]]
            /\ UNCHANGED last
    /\ UNCHANGED <<schedules, stock, inflight, orders, now,
                   shops, notifications, unreadCount, timers>>

\* shop = new this(); await shop.save(); res.json(shop)
ShopGetSave(r) ==
    /\ awaiting[r] # Idle /\ awaiting[r].op = "shop_get"
    /\ Len(shops) < MaxShops
    /\ shops' = Append(shops, NewShop)
    /\ last' = Response("shop_get", Len(shops) + 1, 200, "ok")
    /\ awaiting' = [awaiting EXCEPT ![r] = Idle]
    /\ UNCHANGED <<schedules, stock, inflight, orders, now,
                   notifications, unreadCount, timers>>

\* PUT /api/shop up to await Shop.findOne()
ShopPutFind(r) ==
    /\ awaiting[r] = Idle
    /\ \E body \in ShopPutBodies :
          IF ~ShopBodyValid(body)
          THEN /\ last' = Response("shop_put", 0, 400, "validation")
               /\ UNCHANGED awaiting
          ELSE /\ awaiting' = [awaiting EXCEPT ![r] =
                      [op |-> "shop_put", found |-> FindOne(shops), body |-> body]]
               /\ UNCHANGED last
    /\ UNCHANGED <<schedules, stock, inflight, orders, now,
                   shops, notifications, unreadCount, timers>>

\* if (!shop) shop = new Shop(); Object.assign(shop, req.body); await
\* shop.save(): an insert of the new document, or an update of the paths the
\* body set on the document found
ShopPutSave(r) ==
    /\ awaiting[r] # Idle /\ awaiting[r].op = "shop_put"
    /\ IF awaiting[r].found = 0
       THEN /\ Len(shops) < MaxShops
            /\ shops' = Append(shops, ObjectAssign(NewShop, awaiting[r].body))
            /\ last' = Response("shop_put", Len(shops) + 1, 200, "updated")
       ELSE /\ shops' = [shops EXCEPT ![awaiting[r].found] =
                             ObjectAssign(@, awaiting[r].body)]
            /\ last' = Response("shop_put", awaiting[r].found, 200, "updated")
    /\ awaiting' = [awaiting EXCEPT ![r] = Idle]
    /\ UNCHANGED <<schedules, stock, inflight, orders, now,
                   notifications, unreadCount, timers>>

NextShop ==
    \/ \E r \in Requests : ShopGetFind(r)
    \/ \E r \in Requests : ShopGetSave(r)
    \/ \E r \in Requests : ShopPutFind(r)
    \/ \E r \in Requests : ShopPutSave(r)

SpecShop == Init /\ [][NextShop]_vars

\* ======================= the client's notification store =======================

\* the ids Date.now() + Math.random() takes; one more than the list is followed
\* to, so that an id can name no stored notification
NoteIds == 1..(MaxNotes + 1)

\* ['success', 'info'] are removed by a timer; error, warning and urgent stay
AutoRemoved == {"success", "info"}

NoteTypes == {"success", "error"}

Min(a, b) == IF a <= b THEN a ELSE b

\* prev.filter(n => n.id !== id)
RECURSIVE WithoutId(_, _)
WithoutId(list, id) ==
    IF list = <<>> THEN <<>>
    ELSE IF Head(list).id = id THEN WithoutId(Tail(list), id)
    ELSE <<Head(list)>> \o WithoutId(Tail(list), id)

\* the state the two updaters of removeNotification(id) leave
Removed(list, count, id) ==
    [notifications |-> WithoutId(list, id),
     unreadCount |-> IF \E k \in DOMAIN list : list[k].id = id /\ ~list[k].read
                     THEN Max(0, count - 1) ELSE count]

\* addNotification(notification): the id is one no stored notification and no
\* timer holds; the list is followed while it holds fewer than MaxNotes
AddNotification ==
    /\ Len(notifications) < MaxNotes
    /\ \E type \in NoteTypes :
       \E id \in NoteIds \ ({notifications[k].id : k \in DOMAIN notifications}
                               \cup timers) :
          /\ notifications' =
                 <<[id |-> id, read |-> FALSE, type |-> type]>>
                 \o SubSeq(notifications, 1, Min(KeptOnAdd, Len(notifications)))
          /\ unreadCount' = unreadCount + 1
          /\ timers' = IF type \in AutoRemoved THEN timers \cup {id} ELSE timers
    /\ UNCHANGED <<schedules, stock, last, inflight, orders, now, shops, awaiting>>

\* the setTimeout callback of addNotification: removeNotification(id)
TimerFires ==
    \E id \in timers :
        /\ notifications' = Removed(notifications, unreadCount, id).notifications
        /\ unreadCount' = Removed(notifications, unreadCount, id).unreadCount
        /\ timers' = timers \ {id}
        /\ UNCHANGED <<schedules, stock, last, inflight, orders, now, shops, awaiting>>

RemoveNotification ==
    \E id \in NoteIds :
        /\ notifications' = Removed(notifications, unreadCount, id).notifications
        /\ unreadCount' = Removed(notifications, unreadCount, id).unreadCount
        /\ UNCHANGED <<schedules, stock, last, inflight, orders, now, shops, awaiting,
                       timers>>

MarkAsRead ==
    \E id \in NoteIds :
        /\ notifications' =
               [k \in DOMAIN notifications |->
                   IF notifications[k].id = id /\ ~notifications[k].read
                   THEN [notifications[k] EXCEPT !.read = TRUE]
                   ELSE notifications[k]]
        /\ unreadCount' = Max(0, unreadCount - 1)
        /\ UNCHANGED <<schedules, stock, last, inflight, orders, now, shops, awaiting,
                       timers>>

MarkAllAsRead ==
    /\ notifications' =
           [k \in DOMAIN notifications |-> [notifications[k] EXCEPT !.read = TRUE]]
    /\ unreadCount' = 0
    /\ UNCHANGED <<schedules, stock, last, inflight, orders, now, shops, awaiting,
                   timers>>

ClearAll ==
    /\ notifications' = <<>>
    /\ unreadCount' = 0
    /\ UNCHANGED <<schedules, stock, last, inflight, orders, now, shops, awaiting,
                   timers>>

NextNotifications ==
    \/ AddNotification
    \/ TimerFires
    \/ RemoveNotification
    \/ MarkAsRead
    \/ MarkAllAsRead
    \/ ClearAll

SpecNotifications == Init /\ [][NextNotifications]_vars

\* ======================= the client's countdown display =======================

\* res.json(order): a Date is sent as its ISO string, the date and the time of
\* day to the millisecond; an unset Date as null
ToJSONDate(date) ==
    IF date = NoDate THEN [type |-> "null"]
    ELSE [type |-> "string", day |-> date[1] \div MsPerDay, ms |-> date[1] % MsPerDay]

\* new Date(endTime).getTime()
GetTime(endTime) == endTime.day * MsPerDay + endTime.ms

\* calculateTimeLeft() of the CountdownTimer effect at clock t: the state it
\* sets
CalculateTimeLeft(endTime, t) ==
    LET difference == GetTime(endTime) - t IN
    IF difference > 0
    THEN [timeLeft |-> difference, isOverdue |-> FALSE]
    ELSE [timeLeft |-> 0, isOverdue |-> TRUE]

\* getStatusInfo().text of the CountdownTimer
GetStatusInfo(widget) ==
    IF widget.isOverdue THEN "Overdue"
    ELSE IF widget.timeLeft \div MsPerHour < UrgentHours THEN "Urgent"
    ELSE "Normal"

\* what the CountdownTimer shows for endTime once its effect has run at clock t
CountdownTimer(endTime, t) ==
    IF endTime.type = "null" THEN "No deadline"
    ELSE GetStatusInfo(CalculateTimeLeft(endTime, t))

\* getPriorityColor with <= for < at the 24 hours
GetPriorityColorClosed(endTime, t) ==
    IF endTime.type = "null" THEN "bg-gray-100 border-gray-200"
    ELSE LET difference == GetTime(endTime) - t IN
         IF difference <= 0 THEN "bg-red-100 border-red-200"
         ELSE IF difference <= UrgentHours * MsPerHour
              THEN "bg-yellow-100 border-yellow-200"
         ELSE "bg-blue-100 border-blue-200"

\* getPriorityColor(endTime) of the Shipping page at clock t
GetPriorityColor(endTime, t) ==
    IF endTime.type = "null" THEN "bg-gray-100 border-gray-200"
    ELSE LET difference == GetTime(endTime) - t IN
         IF difference <= 0 THEN "bg-red-100 border-red-200"
         ELSE IF difference < UrgentHours * MsPerHour
              THEN "bg-yellow-100 border-yellow-200"
         ELSE "bg-blue-100 border-blue-200"

\* ======================= claims of the scheduling core =======================

\* the intervals [s1, e1) and [s2, e2) share a point of time
SharePoint(s1, e1, s2, e2) ==
    \E x \in Times : s1 <= x /\ x < e1 /\ s2 <= x /\ x < e2

\* C1: after any sequence of appointment requests processed one at a time, no
\* two stored appointments of one technician with status scheduled or
\* in_progress have overlapping half-open intervals [startTime, endTime).
C1_NoDoubleBooking ==
    \A i, j \in DOMAIN schedules :
        (/\ i # j
         /\ schedules[i].assignedTechnician \in Technicians
         /\ schedules[i].assignedTechnician = schedules[j].assignedTechnician
         /\ schedules[i].status \in {"scheduled", "in_progress"}
         /\ schedules[j].status \in {"scheduled", "in_progress"})
        => ~SharePoint(schedules[i].startTime, schedules[i].endTime,
                       schedules[j].startTime, schedules[j].endTime)

\* C3: a create that names a technician is rejected for conflict if and only if
\* some stored appointment of that technician with status scheduled or
\* in_progress has s < endTime and e > startTime; an adjacent interval is
\* accepted, an overlapping one rejected.
C3_CreateConflictIff ==
    \A body \in TimedBodies :
        Has(body, "assignedTechnician") =>
            LET resp == CreateOutcome(schedules, stock, body).resp IN
            /\ (resp.code = 400 /\ resp.msg = "conflict")
                 <=> \E i \in DOMAIN schedules :
                        /\ schedules[i].assignedTechnician = body.assignedTechnician
                        /\ schedules[i].status \in {"scheduled", "in_progress"}
                        /\ schedules[i].startTime < body.endTime
                        /\ schedules[i].endTime > body.startTime
            /\ resp.code \in {201, 400}
            /\ resp.code = 400 => resp.msg = "conflict"

\* C3 witness: a create was just rejected for conflict while two adjacent
\* appointments of that technician, accepted earlier, are both still scheduled.
C3_Witness ==
    /\ last.op = "create" /\ last.msg = "conflict"
    /\ Len(schedules) = 2
    /\ schedules[1].assignedTechnician \in Technicians
    /\ schedules[1].assignedTechnician = schedules[2].assignedTechnician
    /\ schedules[1].status = "scheduled" /\ schedules[2].status = "scheduled"
    /\ schedules[1].startTime < schedules[1].endTime
    /\ schedules[1].endTime = schedules[2].startTime
    /\ schedules[2].startTime < schedules[2].endTime

\* C4: a create or update rejected for a technician conflict leaves the store
\* as it was: no record added, no field of the targeted record changed.
C4_RejectedLeavesStore ==
    [][(last'.op \in {"create", "put"} /\ last'.msg = "conflict")
        => (last'.code = 400 /\ schedules' = schedules /\ stock' = stock)]_vars

\* C4 witness: an update of a stored appointment was just rejected for conflict.
C4_Witness ==
    /\ last.op = "put" /\ last.msg = "conflict"
    /\ last.id \in DOMAIN schedules

\* C5: every stored appointment has endTime > startTime, because a create or
\* update whose endTime is not after its startTime is rejected.
C5_EndAfterStart ==
    \A i \in DOMAIN schedules : schedules[i].endTime > schedules[i].startTime

\* the transitions of the appointment state machine
AllowedTransitions ==
    {<<"scheduled", "in_progress">>, <<"in_progress", "completed">>,
     <<"scheduled", "cancelled">>, <<"scheduled", "no_show">>}

\* C6: an appointment's status changes only along scheduled->in_progress,
\* in_progress->completed, scheduled->cancelled and scheduled->no_show.
C6_StatusMachine ==
    [][\A i \in DOMAIN schedules :
          schedules'[i].status # schedules[i].status
            => <<schedules[i].status, schedules'[i].status>> \in AllowedTransitions]_vars

\* C7: start on an appointment that is not scheduled is rejected with 400 and
\* changes nothing; on a scheduled one it sets in_progress and nothing else.
C7_StartOnlyScheduled ==
    [][(last'.op = "start" /\ last'.id \in DOMAIN schedules)
        => IF schedules[last'.id].status = "scheduled"
           THEN /\ last'.code = 200
                /\ schedules' = [schedules EXCEPT ![last'.id].status = "in_progress"]
                /\ stock' = stock
           ELSE /\ last'.code = 400
                /\ schedules' = schedules
                /\ stock' = stock]_vars

\* C7 witness: a start was just rejected on an appointment that is already
\* in_progress.
C7_Witness ==
    /\ last.op = "start" /\ last.code = 400
    /\ last.id \in DOMAIN schedules
    /\ schedules[last.id].status = "in_progress"

\* the technician and interval an update would leave in the record
Resulting(id, body, f) == IF Has(body, f) THEN body[f] ELSE schedules[id][f]

C11_UnassignedNeverConflicts ==
    \A body \in TimedBodies :
        ~Has(body, "assignedTechnician") =>
            LET resp == CreateOutcome(schedules, stock, body).resp IN
            /\ resp.msg # "conflict"
            /\ resp.code = 201

\* C11 witness: a create was just accepted and stored without a technician on
\* a proper interval that an earlier unassigned appointment, still scheduled,
\* overlaps.
C11_Witness ==
    /\ last.op = "create" /\ last.code = 201 /\ last.id = 2
    /\ Len(schedules) = 2
    /\ schedules[1].assignedTechnician \notin Technicians
    /\ schedules[2].assignedTechnician \notin Technicians
    /\ schedules[1].status = "scheduled" /\ schedules[2].status = "scheduled"
    /\ SharePoint(schedules[1].startTime, schedules[1].endTime,
                  schedules[2].startTime, schedules[2].endTime)

\* the stored appointments that are scheduled or in_progress
ActiveOnly(S) == SelectSeq(S, LAMBDA r : r.status \in {"scheduled", "in_progress"})

\* C12: once an appointment of technician X on [s, e) is cancelled, a create
\* for X on the same [s, e) is accepted provided no other scheduled or
\* in_progress appointment of X overlaps it (and rejected if one does);
\* cancelled, completed and no_show appointments never block a create: every
\* create is answered as it would be with those records absent.
C12_InactiveNeverBlocks ==
    /\ \A i \in DOMAIN schedules :
          (/\ schedules[i].status \in {"cancelled", "completed", "no_show"}
           /\ schedules[i].assignedTechnician \in Technicians)
          => LET body == [startTime |-> schedules[i].startTime,
                          endTime |-> schedules[i].endTime,
                          assignedTechnician |-> schedules[i].assignedTechnician]
                 resp == CreateOutcome(schedules, stock, body).resp
             IN (resp.code = 201) <=>
                  ~\E j \in DOMAIN schedules :
                      /\ schedules[j].assignedTechnician = body.assignedTechnician
                      /\ schedules[j].status \in {"scheduled", "in_progress"}
                      /\ schedules[j].startTime < body.endTime
                      /\ schedules[j].endTime > body.startTime
    /\ \A body \in TimedBodies :
          LET resp == CreateOutcome(schedules, stock, body).resp
              bare == CreateOutcome(ActiveOnly(schedules), stock, body).resp
          IN resp.code = bare.code /\ resp.msg = bare.msg

\* C12 witness: a create for a technician was just accepted on the proper
\* interval of that technician's earlier appointment, which is cancelled.
C12_Witness ==
    /\ last.op = "create" /\ last.code = 201 /\ last.id = 2
    /\ Len(schedules) = 2
    /\ schedules[1].status = "cancelled" /\ schedules[2].status = "scheduled"
    /\ schedules[1].assignedTechnician \in Technicians
    /\ schedules[1].assignedTechnician = schedules[2].assignedTechnician
    /\ schedules[1].startTime = schedules[2].startTime
    /\ schedules[1].endTime = schedules[2].endTime
    /\ schedules[1].startTime < schedules[1].endTime

\* ======================= claims about concurrent creates =======================

\* C2: two creates for one technician with overlapping intervals that both run
\* their conflict query before either saves both pass and both are persisted
\* as scheduled: a request that passed its query is saved whatever was stored
\* in the meantime.
C2_PassedQueryIsSaved ==
    [][\A c \in Clients :
          (inflight[c] # Idle /\ inflight'[c] = Idle)
            => /\ Len(schedules') = Len(schedules) + 1
               /\ schedules'[Len(schedules')].status = "scheduled"
               /\ schedules'[Len(schedules')].startTime = inflight[c].startTime
               /\ schedules'[Len(schedules')].endTime = inflight[c].endTime
               /\ Has(inflight[c], "assignedTechnician")
                    => schedules'[Len(schedules')].assignedTechnician
                           = inflight[c].assignedTechnician]_vars

\* C2 witness: the double-booked state, two scheduled appointments of one
\* technician on overlapping proper intervals, the second just saved with 201.
C2_DoubleBooked ==
    /\ last.op = "create" /\ last.code = 201
    /\ Len(schedules) = 2
    /\ schedules[1].assignedTechnician \in Technicians
    /\ schedules[1].assignedTechnician = schedules[2].assignedTechnician
    /\ schedules[1].status = "scheduled" /\ schedules[2].status = "scheduled"
    /\ SharePoint(schedules[1].startTime, schedules[1].endTime,
                  schedules[2].startTime, schedules[2].endTime)

\* ======================= claims about completion and stock =======================

\* C8: complete on an appointment that is not in_progress is rejected with 400
\* and changes neither the appointments nor any part's quantityInStock.
C8_CompleteOnlyInProgress ==
    [][(/\ last'.op = "complete"
        /\ last'.id \in DOMAIN schedules
        /\ schedules[last'.id].status # "in_progress")
        => (last'.code = 400 /\ schedules' = schedules /\ stock' = stock)]_vars

\* C8 witness: a complete was just rejected on an appointment that lists a
\* stored part with a quantity the stock could supply.
C8_Witness ==
    /\ last.op = "complete" /\ last.code = 400
    /\ last.id \in DOMAIN schedules
    /\ \E k \in DOMAIN schedules[last.id].requiredParts :
          LET rp == schedules[last.id].requiredParts[k] IN
          /\ rp.part \in DOMAIN stock
          /\ rp.quantity > 0
          /\ stock[rp.part] >= rp.quantity

\* the quantity of part p that a requiredParts list asks for, all entries added
RECURSIVE TotalRequired(_, _)
TotalRequired(requiredParts, p) ==
    IF requiredParts = <<>> THEN 0
    ELSE (IF Head(requiredParts).part = p THEN Head(requiredParts).quantity ELSE 0)
         + TotalRequired(Tail(requiredParts), p)

\* C9 as stated: completing an in_progress appointment sets it completed and
\* lowers each listed part's quantityInStock by exactly the listed quantity.
C9_LowersByQuantity ==
    [][(/\ last'.op = "complete"
        /\ last'.id \in DOMAIN schedules
        /\ schedules[last'.id].status = "in_progress")
        => /\ schedules' = [schedules EXCEPT ![last'.id].status = "completed"]
           /\ \A p \in DOMAIN stock :
                 stock'[p] = stock[p]
                     - TotalRequired(schedules[last'.id].requiredParts, p)]_vars

\* C9 amended: completing an in_progress appointment sets it completed and
\* lowers each listed part's quantityInStock by the listed quantity but never
\* below 0; parts not listed keep their stock.
C9_LowersByQuantityFloored ==
    [][(/\ last'.op = "complete"
        /\ last'.id \in DOMAIN schedules
        /\ schedules[last'.id].status = "in_progress")
        => /\ last'.code = 200
           /\ schedules' = [schedules EXCEPT ![last'.id].status = "completed"]
           /\ DOMAIN stock' = DOMAIN stock
           /\ \A p \in DOMAIN stock :
                 LET q == TotalRequired(schedules[last'.id].requiredParts, p) IN
                 stock'[p] = IF q > stock[p] THEN 0 ELSE stock[p] - q]_vars

\* C9 witness: an appointment listing two different stored parts, each with a
\* positive quantity, was just completed.
C9_Witness ==
    /\ last.op = "complete" /\ last.code = 200
    /\ schedules[last.id].status = "completed"
    /\ Len(schedules[last.id].requiredParts) = 2
    /\ LET rp == schedules[last.id].requiredParts IN
       /\ rp[1].part # rp[2].part
       /\ rp[1].part \in DOMAIN stock /\ rp[2].part \in DOMAIN stock
       /\ rp[1].quantity > 0 /\ rp[2].quantity > 0

\* ======================= claims about the order countdown =======================

\* the time limit a create body asks for: its customTimeLimit, 72 when absent
AskedLimit(body) ==
    IF Has(body, "customTimeLimit") THEN ToNumber(body.customTimeLimit)
    ELSE DefaultTimeLimit

\* C13 as stated: every order created through POST /api/orders with
\* customTimeLimit L in [1,168] (72 when absent) is stored with countdownEndTime
\* equal to its stored orderDate plus exactly L * 3 600 000 ms.
C13_DeadlineFromOrderDate ==
    \A body \in OrderCreateBodies, elapsed \in 0..MaxElapsed :
        LET out == OrderCreateOutcome(orders, stock, now, elapsed, body) IN
        out.resp.code = 201 =>
            LET order == out.orders[out.resp.id] IN
            /\ AskedLimit(body) \in MinTimeLimit..MaxTimeLimit
            /\ order.customTimeLimit = AskedLimit(body)
            /\ order.countdownEndTime
                   = DateOf(order.orderDate + AskedLimit(body) * MsPerHour)

\* C14 as stated: an update whose customTimeLimit L' differs from the stored one
\* sets countdownEndTime to the time of the edit plus L' hours; an update with
\* no customTimeLimit, or with the stored value, leaves countdownEndTime as it
\* was.
C14_RebaseFromEditTime ==
    \A id \in DOMAIN orders :
        \A body \in OrderPutBodies :
            OrderBodyErrors(body) = "none" =>
                LET after == OrderPutOutcome(orders, stock, now, id, body).orders[id] IN
                IF /\ Has(body, "customTimeLimit")
                   /\ ToNumber(body.customTimeLimit) # orders[id].customTimeLimit
                THEN after.countdownEndTime
                         = DateOf(now + ToNumber(body.customTimeLimit) * MsPerHour)
                ELSE after.countdownEndTime = orders[id].countdownEndTime

\* the classification the claims describe, from the time remaining
Classify(deadline, t) ==
    IF deadline = NoDate THEN "null"
    ELSE IF deadline[1] - t <= 0 THEN "overdue"
    ELSE IF deadline[1] - t < 24 * MsPerHour THEN "urgent"
    ELSE "normal"

\* deadlines around the clock reading t: at, 1 ms before and 1 ms after each of
\* t - 1h, t, t + 1h, t + 23h, t + 24h and t + 25h
NearbyDeadlines(t) ==
    {DateOf(t + h * MsPerHour + ms) : h \in {-1, 0, 1, 23, 24, 25}, ms \in {-1, 0, 1}}

\* C15: countdownStatus is null when the deadline D is absent, overdue when
\* D - now <= 0, urgent when 0 < D - now < 24h and normal when D - now >= 24h
\* (so D - now = 24h is normal and D - now = 0 is overdue), for the stored
\* orders and for every deadline around the clock reading.
C15_CountdownStatus ==
    /\ \A i \in DOMAIN orders :
          CountdownStatus(orders[i], now) = Classify(orders[i].countdownEndTime, now)
    /\ \A deadline \in {NoDate} \cup NearbyDeadlines(now) :
          /\ CountdownStatus([countdownEndTime |-> deadline], now)
                 = Classify(deadline, now)
          /\ CountdownStatus([countdownEndTime |-> deadline], now)
                 \in {"null", "overdue", "urgent", "normal"}

\* C15 witness: a stored order whose deadline is exactly 24 hours away reads
\* normal, and its deadline was set by the save hook of its create.
C15_Witness ==
    /\ last.op = "order_create" /\ last.code = 201
    /\ orders[last.id].countdownEndTime = DateOf(now + 24 * MsPerHour)
    /\ CountdownStatus(orders[last.id], now) = "normal"

\* the instant a never edited order's deadline is counted from
T0(order) == order.countdownEndTime[1] - order.customTimeLimit * MsPerHour

Rank(status) == IF status = "normal" THEN 0 ELSE IF status = "urgent" THEN 1 ELSE 2

Listed(list) == {list[k] : k \in DOMAIN list}

\* a list names no order twice and runs by ascending countdownEndTime
AscendingList(list) ==
    /\ \A k, l \in DOMAIN list : k # l => list[k] # list[l]
    /\ \A k, l \in DOMAIN list :
          k < l => orders[list[k]].countdownEndTime[1]
                       <= orders[list[l]].countdownEndTime[1]

\* C17: GET /api/orders/shipping/urgent answers exactly the stored orders with
\* status confirmed or shipped and 0 < countdownEndTime - now < 24h, by
\* ascending countdownEndTime (a step that leaves the list in last and does not
\* move the clock is the query's).
C17_UrgentExactly ==
    [][(last'.op = "urgent" /\ now' = now) =>
          /\ Listed(last'.orders) =
                {i \in DOMAIN orders :
                    /\ orders[i].status \in {"confirmed", "shipped"}
                    /\ orders[i].countdownEndTime # NoDate
                    /\ 0 < orders[i].countdownEndTime[1] - now
                    /\ orders[i].countdownEndTime[1] - now < 24 * MsPerHour}
          /\ AscendingList(last'.orders)]_vars

\* C17 witness: the urgent list was just answered with two orders, the later
\* created one first because its deadline is the sooner.
C17_Witness ==
    /\ last.op = "urgent"
    /\ last.orders = <<2, 1>>
    /\ orders[2].countdownEndTime[1] < orders[1].countdownEndTime[1]

\* C18 as stated: GET /api/orders/shipping/overdue answers exactly the stored
\* orders with status confirmed or shipped and countdownEndTime <= now, an
\* order whose deadline equals now included, by ascending countdownEndTime.
C18_OverdueExactly ==
    [][(last'.op = "overdue" /\ now' = now) =>
          /\ Listed(last'.orders) =
                {i \in DOMAIN orders :
                    /\ orders[i].status \in {"confirmed", "shipped"}
                    /\ orders[i].countdownEndTime # NoDate
                    /\ orders[i].countdownEndTime[1] <= now}
          /\ AscendingList(last'.orders)]_vars

\* C19: an order whose status is delivered or cancelled is in neither the
\* urgent nor the overdue list, whatever its countdownEndTime and at every
\* clock reading; a list just answered names no such order.
C19_ClosedOrdersUnlisted ==
    /\ \A t \in {now} \cup Instants(ShippingHours) :
          \A list \in UrgentResults(orders, t) \cup OverdueResults(orders, t) :
              \A i \in Listed(list) : orders[i].status \notin {"delivered", "cancelled"}
    /\ last.op \in {"urgent", "overdue"} =>
          \A i \in Listed(last.orders) : orders[i].status \notin {"delivered", "cancelled"}

\* C19 witness: the overdue list was just answered with one order while the
\* other, received, has its deadline in the past and is left out.
C19_Witness ==
    /\ last.op = "overdue"
    /\ Len(last.orders) = 1
    /\ \E i \in DOMAIN orders \ Listed(last.orders) :
          /\ orders[i].status = "delivered"
          /\ orders[i].countdownEndTime[1] < now

\* ======================= claims about the time limit's range =======================

\* C20: a create or an update whose customTimeLimit is outside [1,168] is
\* answered 400 for the time limit and leaves the orders and the stock as they
\* were: no order is added and no field of the targeted order changes.
C20_OutOfRangeRejected ==
    /\ \A body \in OrderCreateBodies, elapsed \in 0..MaxElapsed :
          (/\ Has(body, "customTimeLimit")
           /\ ToNumber(body.customTimeLimit) \notin 1..168)
          => LET out == OrderCreateOutcome(orders, stock, now, elapsed, body) IN
             /\ out.resp.code = 400 /\ out.resp.msg = "time_limit"
             /\ out.orders = orders /\ out.stock = stock
    /\ \A body \in OrderPutBodies, id \in 1..MaxOrders :
          (/\ Has(body, "customTimeLimit")
           /\ ToNumber(body.customTimeLimit) \notin 1..168)
          => LET out == OrderPutOutcome(orders, stock, now, id, body) IN
             /\ out.resp.code = 400 /\ out.resp.msg = "time_limit"
             /\ out.orders = orders /\ out.stock = stock

\* C20 witness: an update of a stored order was just refused for its time
\* limit.
C20_Witness ==
    /\ last.op = "order_put" /\ last.code = 400 /\ last.msg = "time_limit"
    /\ last.id \in DOMAIN orders

\* ======================= claims about what a request may change =======================

\* C21 as stated: orderDate is set at creation and no later operation on the
\* order (PUT, DELETE cancel, POST receive) changes it, whatever the request
\* body contains.
C21_OrderDateImmutable ==
    \A id \in DOMAIN orders :
        /\ \A body \in OrderPutBodies \cup DatedPutBodies :
              OrderPutOutcome(orders, stock, now, id, body).orders[id].orderDate
                  = orders[id].orderDate
        /\ OrderCancelOutcome(orders, stock, id).orders[id].orderDate
              = orders[id].orderDate
        /\ OrderReceiveOutcome(orders, stock, id).orders[id].orderDate
              = orders[id].orderDate

\* C22 as stated: every appointment stored by a successful POST /api/schedule
\* has status scheduled immediately after creation, whatever fields the body
\* contains.
C22_CreatedScheduled ==
    \A body \in TimedBodies \cup StatusCreateBodies :
        LET out == CreateOutcome(schedules, stock, body) IN
        out.resp.code = 201 => out.schedules[out.resp.id].status = "scheduled"

\* ======================= claims about deliveries =======================

\* the units of part p on the lines of an order
RECURSIVE Ordered(_, _)
Ordered(parts, p) ==
    IF parts = <<>> THEN 0
    ELSE (IF Head(parts).part = p THEN Head(parts).quantity ELSE 0)
         + Ordered(Tail(parts), p)

\* the units of part p on the lines of the first n stored orders
RECURSIVE OrderedUpTo(_, _)
OrderedUpTo(n, p) ==
    IF n = 0 THEN 0
    ELSE Ordered(orders[n].parts, p) + OrderedUpTo(n - 1, p)

\* C23: POST /api/orders/:id/receive on an order that is not delivered adds
\* exactly each line's ordered quantity to that part's quantityInStock and sets
\* the order's status to delivered; on an order already delivered it is
\* answered 400 and changes neither the order nor any stock.
C23_ReceiveAddsOrdered ==
    [][(last'.op = "order_receive" /\ last'.id \in DOMAIN orders) =>
          IF orders[last'.id].status # "delivered"
          THEN /\ last'.code = 200
               /\ orders' = [orders EXCEPT ![last'.id].status = "delivered"]
               /\ stock' = [p \in DOMAIN stock |->
                               stock[p] + Ordered(orders[last'.id].parts, p)]
          ELSE /\ last'.code = 400
               /\ orders' = orders
               /\ stock' = stock]_vars

\* C23 witness: an order of two units of part 1 and one of part 2 was just
\* received into an empty store.
C23_Witness ==
    /\ last.op = "order_receive" /\ last.code = 200
    /\ orders[last.id].status = "delivered"
    /\ orders[last.id].parts
           = <<[part |-> 1, quantity |-> 2], [part |-> 2, quantity |-> 1]>>
    /\ stock = <<2, 1>>

\* C24 as stated: across any sequence of order operations (create, PUT,
\* DELETE, receive) the part quantities of an order are added to the inventory
\* at most once: the parts enter the store empty and only a receive adds to
\* them, so no part ever holds more than the stored orders name of it.
C24_AddedAtMostOnce ==
    \A p \in DOMAIN stock : stock[p] <= OrderedUpTo(Len(orders), p)

\* C25 as stated: once an order is cancelled no later operation makes it
\* delivered or changes stock on its behalf, and a DELETE on a delivered order
\* is answered 400 and leaves it delivered.
C25_CancelledStaysClosed ==
    [][/\ \A i \in DOMAIN orders :
             orders[i].status = "cancelled" =>
                 /\ orders'[i].status # "delivered"
                 /\ last'.id = i => \A p \in DOMAIN stock : stock'[p] = stock[p]
       /\ (/\ last'.op = "order_cancel"
           /\ last'.id \in DOMAIN orders
           /\ orders[last'.id].status = "delivered")
          => /\ last'.code = 400
             /\ orders'[last'.id].status = "delivered"]_vars

\* ======================= claims about the inventory =======================

\* C26: in every state reached by part creates, part updates, restocks, order
\* receives and appointment completions run one after another, every
\* quantityInStock is at least 0; a completion of an appointment that requires
\* more of a part than is in stock leaves that part's stock at 0.
C26_StockNeverNegative ==
    /\ [](\A p \in DOMAIN stock : stock[p] >= 0)
    /\ [][(/\ last'.op = "complete"
           /\ last'.id \in DOMAIN schedules
           /\ schedules[last'.id].status = "in_progress")
          => \A p \in DOMAIN stock :
                TotalRequired(schedules[last'.id].requiredParts, p) > stock[p]
                    => stock'[p] = 0]_vars

\* C26 witness: an appointment that requires more of part 1 than the store
\* can hold was just completed, after an order was received, and part 1 is at
\* 0.
C26_Witness ==
    /\ last.op = "complete" /\ last.code = 200
    /\ schedules[last.id].requiredParts = <<[part |-> 1, quantity |-> MaxOnHand + 1]>>
    /\ \E i \in DOMAIN orders : orders[i].status = "delivered"
    /\ stock[1] = 0

\* ======================= claims about interleaved requests =======================

\* what the answered requests 1..n added to part p, consumption counted negative
RECURSIVE Added(_, _)
Added(n, p) ==
    IF n = 0 THEN 0
    ELSE (IF /\ awaiting[n] # Idle
             /\ awaiting[n].op = "answered"
             /\ awaiting[n].code = 200
             /\ awaiting[n].part = p
          THEN awaiting[n].delta ELSE 0)
         + Added(n - 1, p)

\* the answered requests are a restock, a receive and a completion, each
\* answered 200
OneOfEach ==
    \A handler \in {"restock", "receive", "complete"} :
        \E r \in Requests :
            /\ awaiting[r] # Idle
            /\ awaiting[r].op = "answered"
            /\ awaiting[r].handler = handler
            /\ awaiting[r].code = 200

\* C27 as stated: when a restock, an order receive and an appointment
\* completion that touch the same part run interleaved, no update is lost: once
\* the three are answered, the part's quantity is its initial quantity plus
\* what was added minus what was consumed, floored at 0.
C27_NoUpdateLost ==
    OneOfEach =>
        \A p \in DOMAIN stock :
            stock[p] = Max(0, MaxStock + Added(MaxRequests, p))

\* C28 as stated: in every reachable state at most one Shop document exists,
\* after any interleaving of GET /api/shop and PUT /api/shop requests.
C28_OneShop == Len(shops) <= 1

\* ======================= claims about the client =======================

\* C29 as stated: after any sequence of addNotification, removeNotification,
\* markAsRead, markAllAsRead, clearAll and timer firings, unreadCount equals
\* the number of stored notifications with read = false, and the list holds
\* no more than 50 notifications.
C29_UnreadCountExact ==
    /\ unreadCount
           = Cardinality({k \in DOMAIN notifications : ~notifications[k].read})
    /\ Len(notifications) <= 50

\* the class each of the three displays shows
WidgetClass(text) ==
    IF text = "Overdue" THEN "overdue"
    ELSE IF text = "Urgent" THEN "urgent"
    ELSE IF text = "Normal" THEN "normal"
    ELSE "null"

ColorClass(color) ==
    IF color = "bg-red-100 border-red-200" THEN "overdue"
    ELSE IF color = "bg-yellow-100 border-yellow-200" THEN "urgent"
    ELSE IF color = "bg-blue-100 border-blue-200" THEN "normal"
    ELSE "null"

\* C30: for the same countdownEndTime and the same clock reading, the server's
\* countdownStatus, the CountdownTimer widget once its calculateTimeLeft has
\* run, and getPriorityColor of the Shipping page show the same class: overdue
\* iff endTime - now <= 0, urgent iff 0 < endTime - now < 24h, normal
\* otherwise; for the deadlines of the stored orders and for every deadline
\* around the clock reading.
C30_DisplaysAgree ==
    \A deadline \in {orders[i].countdownEndTime : i \in DOMAIN orders}
                        \cup NearbyDeadlines(now) \cup {NoDate} :
        LET server == CountdownStatus([countdownEndTime |-> deadline], now)
            widget == WidgetClass(CountdownTimer(ToJSONDate(deadline), now))
            page == ColorClass(GetPriorityColor(ToJSONDate(deadline), now))
        IN /\ server = widget
           /\ widget = page
           /\ deadline # NoDate =>
                 /\ page = "overdue" <=> deadline[1] - now <= 0
                 /\ page = "urgent" <=> (0 < deadline[1] - now
                                           /\ deadline[1] - now < 24 * MsPerHour)
                 /\ page = "normal" <=> deadline[1] - now >= 24 * MsPerHour

\* C30 witness: the deadline of a stored order is the clock reading itself, an
\* hour after the order was created, and the three displays show overdue.
C30_Witness ==
    \E i \in DOMAIN orders :
        /\ orders[i].countdownEndTime = DateOf(now)
        /\ now = orders[i].orderDate + MsPerHour
        /\ CountdownStatus(orders[i], now) = "overdue"
        /\ CountdownTimer(ToJSONDate(orders[i].countdownEndTime), now) = "Overdue"
        /\ GetPriorityColor(ToJSONDate(orders[i].countdownEndTime), now)
               = "bg-red-100 border-red-200"

====
